---- MODULE Spec2Model ----
(***************************************************************************)
(* Model of the GARD flash image builders:                                 *)
(*   RootImageBuilder.py     (FlashLayout, write_flash_layout_from_args)   *)
(*   CameraConfigBuilder.py  (CameraConfigBuilder,                         *)
(*                            write_camera_config_layout_from_args)        *)
(*   xlate_camera_config.py  (I2CBinGenerator)                             *)
(* One behaviour is one run of one of the three scripts: Init draws the    *)
(* command line, the actions are the steps of the script in program order. *)
(* An exception ends the run (pc = "failed", err names the exception).     *)
(* SpecTwice runs the same command a second time, SpecBuilders makes a     *)
(* second builder in the process of the first, SpecStart gives the root    *)
(* script the StartOfDirectory key of --rfsconf.                           *)
(***************************************************************************)
EXTENDS Integers, Sequences, FiniteSets, TLC

(***************************************************************************)
(* Bounds of the model.                                                    *)
(***************************************************************************)
\* largest number of Add* calls in one root build
MaxModules == 2
\* the same, in the builds that try every category boundary
MaxDefaultModules == 2
\* the same, in the builds that pin a firmware to boot
MaxPinned == 3
\* largest number of --camconfcmnd entries of a camera container build
MaxCmds == 2
\* largest number of lines of a register script given to the transcoder
MaxLines == 3
\* largest number of Add* calls, of --camconfcmnd entries and of lines of a
\* command that is run twice
MaxTwice == 2
\* largest number of Add* calls in the builds that give StartOfDirectory
MaxStartModules == 2
\* largest number of entries in the directory list of a process that makes
\* two builders
MaxBuilderModules == 2

(***************************************************************************)
(* Inputs.                                                                 *)
(***************************************************************************)
\* a file that does not exist; any other file is known by its size in bytes
MissingFile == -1
FileInputs == {MissingFile, 0, 4, 5}
\* --erase-block-alignment values (parse_int accepts any integer)
AlignmentInputs == {-4, 0, 1, 3, 4, 64, 131072}
\* --dir-copies values
CopiesInputs == {-1, 0, 1, 2}
\* module identifiers: one below the firmware range, two firmwares, one ML
\* network and one application data module
UIDInputs == {4096, 4097, 4098, 8193, 20481}
\* module identifiers: both ends of every category and their neighbours
RangeUIDInputs == {0, 4096, 4097, 8190, 8191, 8192, 8193, 12287, 12288,
                   12289, 16383, 16384, 16385, 20479, 20480, 20481, 24575,
                   24576, 24577, 65535}
\* module identifiers of the builds that pin a firmware to boot
PinUIDInputs == {4097, 4098, 4099, 8193}
\* UIDOfFirmwareToBoot values of --rfsconf
BootInputs == {4097, 8193}
PinBootInputs == {4098, 4099, 4100}
\* StartOfDirectory values of --rfsconf (parse_int accepts any integer)
StartInputs == {-64, 0, 4, 64, 100, 128, 65536}
\* camera configuration command identifiers of --camconfcmnd
CmdUIDInputs == {-1, 0, 4097, 4113, 4114}

(***************************************************************************)
(* class ModuleType                                                        *)
(***************************************************************************)
MODULE_FW_START_ID == 4097
MODULE_FW_END_ID == 8190
MODULE_ML_START_ID == 8193
MODULE_ML_END_ID == 12287
MODULE_CAM_CFG_START_ID == 12289
MODULE_CAM_CFG_END_ID == 16383
MODULE_APP_PROF_START_ID == 16385
MODULE_APP_PROF_END_ID == 20479
MODULE_APP_DATA_START_ID == 20481
MODULE_APP_DATA_END_ID == 24575
\* CameraActionUID.BASIC_CAMERA_CONFIG
BASIC_CAMERA_CONFIG == 4097
\* struct.calcsize("III") and struct.calcsize("<I16s16s16sII"), "IIIIIIIIII"
DIR_ENTRY_SIZE == 12
BASIC_CONF_SIZE == 60
RUNTIME_CONF_SIZE == 40
\* class attribute FlashLayout.ALIGNMENT_VALUE = 64 * 1024
DEFAULT_ALIGNMENT_VALUE == 65536
\* an attribute that is None, and one that holds the integer v
None == << >>
Some(v) == << v >>

(***************************************************************************)
(* Python integer arithmetic: & and ~ on unbounded two's complement ints.  *)
(***************************************************************************)
RECURSIVE BitAndNat(_, _)
BitAndNat(a, b) ==
    IF a = 0 \/ b = 0 THEN 0
    ELSE (a % 2) * (b % 2) + 2 * BitAndNat(a \div 2, b \div 2)

PyInvert(a) == (0 - a) - 1

PyAnd(a, b) ==
    IF a >= 0 /\ b >= 0 THEN BitAndNat(a, b)
    ELSE IF a >= 0 THEN a - BitAndNat(a, PyInvert(b))
    ELSE IF b >= 0 THEN b - BitAndNat(b, PyInvert(a))
    ELSE PyInvert(PyInvert(a) + PyInvert(b)
                  - BitAndNat(PyInvert(a), PyInvert(b)))

\* align_value that moves an aligned value to the next block
align_value_NextBlock(alignment, value) ==
    PyAnd(value + alignment, PyInvert(alignment - 1))

\* FlashLayout.align_value with self.ALIGNMENT_VALUE = alignment
align_value(alignment, value) ==
    PyAnd(value + alignment - 1, PyInvert(alignment - 1))

(***************************************************************************)
(* struct.pack / struct.unpack of the "III" directory entry.               *)
(* A field outside 0 .. 2^32-1 makes struct.pack raise struct.error; the   *)
(* values of this model stay below 2^31, so only the lower end can fail.   *)
(***************************************************************************)
PackableU32(v) == v >= 0

PackU32(v) ==
    << v % 256, (v \div 256) % 256, (v \div 65536) % 256,
       (v \div 16777216) % 256 >>

UnpackU32(bytes, at) ==
    bytes[at] + 256 * bytes[at + 1] + 65536 * bytes[at + 2]
    + 16777216 * bytes[at + 3]

\* a packing that writes the size before the offset
PackEntry_SizeBeforeOffset(uid, offset, size) ==
    PackU32(uid) \o PackU32(size) \o PackU32(offset)

PackEntry(uid, offset, size) == PackU32(uid) \o PackU32(offset) \o PackU32(size)

UnpackEntry(entry) ==
    << UnpackU32(entry, 1), UnpackU32(entry, 5), UnpackU32(entry, 9) >>

EntryUID(entry) == UnpackEntry(entry)[1]

\* b''.join(entries)
RECURSIVE Join(_)
Join(entries) ==
    IF entries = << >> THEN << >> ELSE Head(entries) \o Join(Tail(entries))

(***************************************************************************)
(* Directory (FlashLayout.Directory and CameraConfigDirectory share the    *)
(* code of add_entry and get_dir_entries).                                 *)
(***************************************************************************)
\* the duplicate test of add_entry
HasUID(entries, uid) == \E i \in 1 .. Len(entries) : EntryUID(entries[i]) = uid

\* add_entry without its uniqueness test
add_entry_result_NoUniqueTest(entries, uid, offset, size) ==
    IF ~(PackableU32(uid) /\ PackableU32(offset) /\ PackableU32(size))
    THEN "struct"
    ELSE "ok"

\* outcome of add_entry: "dup" (ValueError), "struct" (struct.error) or "ok"
add_entry_result(entries, uid, offset, size) ==
    IF HasUID(entries, uid) THEN "dup"
    ELSE IF ~(PackableU32(uid) /\ PackableU32(offset) /\ PackableU32(size))
    THEN "struct"
    ELSE "ok"

\* the list after add_entry
add_entry(entries, uid, offset, size) ==
    IF add_entry_result(entries, uid, offset, size) = "ok"
    THEN Append(entries, PackEntry(uid, offset, size))
    ELSE entries

\* index of the first entry whose UID is uid, 0 when there is none
FirstIndexOf(entries, uid) ==
    IF HasUID(entries, uid)
    THEN CHOOSE i \in 1 .. Len(entries) :
            /\ EntryUID(entries[i]) = uid
            /\ \A j \in 1 .. i - 1 : EntryUID(entries[j]) # uid
    ELSE 0

\* an exchange of the item at index i with the first item
MoveToFront_Exchange(entries, i) ==
    [entries EXCEPT ![1] = entries[i], ![i] = entries[1]]

\* list.remove(item) followed by list.insert(0, item) for the item at index i
MoveToFront(entries, i) ==
    << entries[i] >> \o SubSeq(entries, 1, i - 1)
                     \o SubSeq(entries, i + 1, Len(entries))

\* "if self.first_UID": neither None nor 0
Truthy(first) == first # None /\ first[1] # 0

\* get_dir_entries raises IndexError on dir_entries[0] of an empty list
get_dir_entries_raises(entries, first) == Truthy(first) /\ entries = << >>

\* get_dir_entries bringing the entry forward by one rotation per call
get_dir_entries_list_RotateOnce(entries, first) ==
    IF ~Truthy(first) \/ entries = << >> THEN entries
    ELSE IF EntryUID(entries[1]) = first[1] THEN entries
    ELSE IF FirstIndexOf(entries, first[1]) = 0 THEN entries
    ELSE Tail(entries) \o << Head(entries) >>

\* the list as get_dir_entries leaves it
get_dir_entries_list(entries, first) ==
    IF ~Truthy(first) \/ entries = << >> THEN entries
    ELSE IF EntryUID(entries[1]) = first[1] THEN entries
    ELSE IF FirstIndexOf(entries, first[1]) = 0 THEN entries
    ELSE MoveToFront(entries, FirstIndexOf(entries, first[1]))

\* the bytes get_dir_entries returns
get_dir_entries(entries, first) == Join(get_dir_entries_list(entries, first))

(***************************************************************************)
(* State.                                                                  *)
(***************************************************************************)
VARIABLES
    builder,                \* which script runs: "root" or "camera"
    inputs,                 \* the values this run's command line draws from
    args,                   \* the parsed command line
    pc,                     \* position of the script
    err,                    \* exception that ended the run, "none" otherwise
    lastOp,                 \* the call made by the last step and its arguments
    ALIGNMENT_VALUE,        \* fl.ALIGNMENT_VALUE
    dir1_offset,            \* fl.dir1_offset
    dir_copies,             \* fl.dir_copies
    module_offset,          \* fl.module_offset
    config_instance,        \* fl.config_instance (RfsConfiguration)
    first_UID,              \* fl.dir_instance.first_UID
    dir_entries,            \* FlashLayout.Directory.dir_entries
    stage,                  \* position of the loop over vars(args)
    cc_dir_entries,         \* CameraConfigDirectory.dir_entries
    confg_cmnd_pyld_offset, \* ccb.confg_cmnd_pyld_offset
    count_of_dir_entries,   \* ccb.basic_config.count_of_dir_entries
    cmnds_done,             \* --camconfcmnd entries processed so far
    outfile,                \* the writes made to the output file, in order
    returned,               \* bytes returned by the last get_dir_entries call
    registered,             \* (uid, offset, size) of each add_entry that returned
    input_file,             \* the lines of the transcoder's input file
    entries,                \* the list returned by extract_entries
    normal_entries_buffer,  \* generate_bin's normal_entries_buffer
    entry_no,               \* entries consumed by the loop of generate_bin
    script,                 \* the calls made by this run, in order
    firstRun                \* how the previous run of the same command ended

vars == << builder, inputs, registered, args, pc, err, lastOp,
           ALIGNMENT_VALUE, dir1_offset,
           dir_copies, module_offset, config_instance, first_UID, dir_entries,
           stage, cc_dir_entries, confg_cmnd_pyld_offset, count_of_dir_entries,
           cmnds_done, outfile, returned, input_file, entries,
           normal_entries_buffer, entry_no, script, firstRun >>

rootVars == << ALIGNMENT_VALUE, dir1_offset, dir_copies, module_offset,
               config_instance, first_UID, dir_entries, stage >>

cameraVars == << cc_dir_entries, confg_cmnd_pyld_offset, count_of_dir_entries,
                 cmnds_done >>

xlateVars == << input_file, entries, normal_entries_buffer, entry_no >>

\* FlashLayout.configuration_address (no command-line argument sets it)
configuration_address == 0

\* one write to the output file: seek(at) then write of len bytes
Write(kind, at, len, data) ==
    [kind |-> kind, at |-> at, len |-> len, data |-> data]

Call(op, uid, file) == [op |-> op, uid |-> uid, file |-> file]

\* RfsConfiguration.__init__, with the class attributes of FlashLayout
RfsConfigurationInit ==
    [ start_of_directory |-> 0,
      size_of_directory |-> DEFAULT_ALIGNMENT_VALUE,
      count_of_directories |-> 1,
      size_of_directory_entry |-> DIR_ENTRY_SIZE,
      uid_of_firmware_to_boot |-> MODULE_FW_START_ID ]

\* RfsConfiguration.get_configuration: the ten words of the header; the
\* fourth, the CRC, is packed as 0
get_configuration(config) ==
    [ signature |-> 1128485708,
      layout_version |-> 1,
      update_count |-> 1,
      crc |-> 0,
      control_field |-> "VALID_CONFIG",
      start_of_directory |-> config.start_of_directory,
      size_of_directory |-> config.size_of_directory,
      count_of_directories |-> config.count_of_directories,
      size_of_directory_entry |-> config.size_of_directory_entry,
      uid_of_firmware_to_boot |-> config.uid_of_firmware_to_boot ]

\* the state of a script after the builder object is constructed
Constructed ==
    /\ pc = "start"
    /\ err = "none"
    /\ lastOp = Call("none", 0, MissingFile)
    /\ ALIGNMENT_VALUE = DEFAULT_ALIGNMENT_VALUE
    /\ dir1_offset = 0
    /\ dir_copies = 1
    /\ module_offset = 0 + DEFAULT_ALIGNMENT_VALUE
    /\ config_instance = RfsConfigurationInit
    /\ first_UID = None
    /\ dir_entries = << >>
    /\ stage = 0
    /\ cc_dir_entries = << >>
    /\ confg_cmnd_pyld_offset = None
    /\ count_of_dir_entries = 0
    /\ cmnds_done = 0
    /\ outfile = << >>
    /\ returned = << >>
    /\ registered = << >>
    /\ entries = << >>
    /\ normal_entries_buffer = << >>
    /\ entry_no = 0
    /\ script = << >>

\* argparse defaults of --erase-block-alignment and --dir-copies
DEFAULT_ERASE_BLOCK_ALIGNMENT == 32768
DEFAULT_DIR_COPIES == 1

RootArgs(alignments, copies) ==
    [ erase_block_alignment : alignments, dir_copies : copies,
      basicconf : {FALSE}, camconfcmnd : {0} ]

CameraArgs ==
    [ erase_block_alignment : {0}, dir_copies : {0},
      basicconf : BOOLEAN, camconfcmnd : 0 .. MaxCmds ]

Inputs(uids, files, boots, modules) ==
    [uids |-> uids, files |-> files, boots |-> boots, modules |-> modules]

\* either script, every alignment and number of copies
Init ==
    /\ Constructed
    /\ input_file = << >> /\ firstRun = None
    /\ inputs = Inputs(UIDInputs, FileInputs, BootInputs, MaxModules)
    /\ \/ builder = "root" /\ args \in RootArgs(AlignmentInputs, CopiesInputs)
       \/ builder = "camera" /\ args \in CameraArgs

\* the root script with its default layout, every category boundary
InitDefault ==
    /\ Constructed
    /\ input_file = << >> /\ firstRun = None
    /\ inputs = Inputs(RangeUIDInputs, FileInputs, BootInputs,
                       MaxDefaultModules)
    /\ builder = "root"
    /\ args \in RootArgs({DEFAULT_ERASE_BLOCK_ALIGNMENT}, {DEFAULT_DIR_COPIES})

\* the root script with up to MaxPinned modules and a firmware to boot
InitPin ==
    /\ Constructed
    /\ input_file = << >> /\ firstRun = None
    /\ inputs = Inputs(PinUIDInputs, {4}, PinBootInputs, MaxPinned)
    /\ builder = "root"
    /\ args \in RootArgs({DEFAULT_ERASE_BLOCK_ALIGNMENT}, {1, 2})

\* the root script with StartOfDirectory in --rfsconf
InitStart ==
    /\ Constructed
    /\ input_file = << >> /\ firstRun = None
    /\ inputs = Inputs({4097, 8193}, {MissingFile, 4, 5}, BootInputs,
                       MaxStartModules)
    /\ builder = "root"
    /\ args \in RootArgs({0, 4, 64, DEFAULT_ERASE_BLOCK_ALIGNMENT}, {0, 1, 2})

\* an exception leaves the script
Raise(e) == pc' = "failed" /\ err' = e

\* the step's call joins the calls of this run
Logged == script' = Append(script, lastOp') /\ firstRun' = firstRun

(***************************************************************************)
(* write_flash_layout_from_args, lines 392-404: alignment and copies.      *)
(***************************************************************************)
\* the test "(a & (a - 1)) != 0"
NotPowerOfTwo(a) == PyAnd(a, a - 1) # 0

ConfigureLayout ==
    /\ builder = "root" /\ pc = "start"
    /\ lastOp' = Call("ConfigureLayout", 0, MissingFile)
    /\ LET a == args.erase_block_alignment
           c == args.dir_copies
       IN  IF a # 0 /\ NotPowerOfTwo(a)
           THEN /\ Raise("alignment")
                /\ UNCHANGED << ALIGNMENT_VALUE, dir1_offset, dir_copies,
                                module_offset, config_instance >>
           ELSE /\ ALIGNMENT_VALUE' = IF a # 0 THEN a ELSE ALIGNMENT_VALUE
                /\ dir1_offset' = IF a # 0 THEN a ELSE dir1_offset
                /\ IF c # 0 /\ c < 1
                   THEN /\ Raise("copies")
                        /\ UNCHANGED << dir_copies, module_offset,
                                        config_instance >>
                   ELSE /\ pc' = "modules" /\ err' = "none"
                        /\ dir_copies' = IF c # 0 THEN c ELSE dir_copies
                        /\ config_instance' =
                              IF c # 0
                              THEN [config_instance EXCEPT
                                      !.count_of_directories = c]
                              ELSE config_instance
                        /\ module_offset' =
                              IF c # 0
                              THEN dir1_offset' + ALIGNMENT_VALUE' * c
                              ELSE module_offset
    /\ UNCHANGED << builder, inputs, args, first_UID, dir_entries, stage,
                    outfile, returned, registered >>
    /\ UNCHANGED cameraVars
    /\ UNCHANGED xlateVars
    /\ Logged

(***************************************************************************)
(* FlashLayout.WriteModuleToFile and the five Add* methods.                *)
(***************************************************************************)
WriteModuleToFile(uid, size) ==
    LET module_start_offset == module_offset
        result == add_entry_result(dir_entries, uid,
                                   module_start_offset - dir1_offset, size)
    IN  /\ outfile' = Append(outfile,
                             Write("module", module_start_offset, size, uid))
        /\ module_offset' = align_value(ALIGNMENT_VALUE,
                                        module_start_offset + size)
        /\ dir_entries' = add_entry(dir_entries, uid,
                                    module_start_offset - dir1_offset, size)
        /\ IF result = "ok"
           THEN /\ pc' = pc /\ err' = "none"
                /\ registered' =
                      Append(registered,
                             << uid, module_start_offset - dir1_offset, size >>)
           ELSE Raise(result) /\ registered' = registered

\* Add* methods that test the range of the identifier after the write
AddModule_RangeTestLast(op, rank, start_id, end_id, checkSize, uid, file) ==
    /\ builder = "root" /\ pc = "modules"
    /\ stage <= rank
    /\ Len(dir_entries) < inputs.modules
    /\ stage' = rank
    /\ lastOp' = Call(op, uid, file)
    /\ IF file = MissingFile
       THEN /\ Raise("missing")
            /\ UNCHANGED << outfile, module_offset, dir_entries, registered >>
       ELSE IF checkSize /\ (file % 4) # 0
       THEN /\ Raise("size")
            /\ UNCHANGED << outfile, module_offset, dir_entries, registered >>
       ELSE IF ~(start_id <= uid /\ uid <= end_id)
       THEN /\ Raise("range")
            /\ outfile' = Append(outfile,
                                 Write("module", module_offset, file, uid))
            /\ module_offset' = align_value(ALIGNMENT_VALUE,
                                            module_offset + file)
            /\ UNCHANGED << dir_entries, registered >>
       ELSE WriteModuleToFile(uid, file)
    /\ UNCHANGED << builder, inputs, args, ALIGNMENT_VALUE, dir1_offset,
                    dir_copies, config_instance, first_UID, returned >>
    /\ UNCHANGED cameraVars
    /\ UNCHANGED xlateVars
    /\ Logged

\* the body shared by the Add* methods: range check, os.path.exists, the
\* size check of AddAppData, then WriteModuleToFile
AddModule(op, rank, start_id, end_id, checkSize, uid, file) ==
    /\ builder = "root" /\ pc = "modules"
    /\ stage <= rank
    /\ Len(dir_entries) < inputs.modules
    /\ stage' = rank
    /\ lastOp' = Call(op, uid, file)
    /\ IF ~(start_id <= uid /\ uid <= end_id)
       THEN /\ Raise("range")
            /\ UNCHANGED << outfile, module_offset, dir_entries, registered >>
       ELSE IF file = MissingFile
       THEN /\ Raise("missing")
            /\ UNCHANGED << outfile, module_offset, dir_entries, registered >>
       ELSE IF checkSize /\ (file % 4) # 0
       THEN /\ Raise("size")
            /\ UNCHANGED << outfile, module_offset, dir_entries, registered >>
       ELSE WriteModuleToFile(uid, file)
    /\ UNCHANGED << builder, inputs, args, ALIGNMENT_VALUE, dir1_offset,
                    dir_copies, config_instance, first_UID, returned >>
    /\ UNCHANGED cameraVars
    /\ UNCHANGED xlateVars
    /\ Logged

AddMLFirmware(ml_id, ml_file) ==
    AddModule("AddMLFirmware", 1, MODULE_ML_START_ID, MODULE_ML_END_ID,
              FALSE, ml_id, ml_file)

AddAppProfile(app_id, app_file) ==
    AddModule("AddAppProfile", 2, MODULE_APP_PROF_START_ID,
              MODULE_APP_PROF_END_ID, FALSE, app_id, app_file)

\* AddAppData without the test of the file size
AddAppData_NoSizeTest(app_data_id, app_data_file) ==
    AddModule("AddAppData", 3, MODULE_APP_DATA_START_ID,
              MODULE_APP_DATA_END_ID, FALSE, app_data_id, app_data_file)

AddAppData(app_data_id, app_data_file) ==
    AddModule("AddAppData", 3, MODULE_APP_DATA_START_ID,
              MODULE_APP_DATA_END_ID, TRUE, app_data_id, app_data_file)

\* AddGARDFirmware with a range that takes in MODULE_FW_TEMPORARY
AddGARDFirmware_UpToTemporary(gard_id, gard_file) ==
    AddModule("AddGARDFirmware", 4, MODULE_FW_START_ID, MODULE_FW_END_ID + 1,
              FALSE, gard_id, gard_file)

AddGARDFirmware(gard_id, gard_file) ==
    AddModule("AddGARDFirmware", 4, MODULE_FW_START_ID, MODULE_FW_END_ID,
              FALSE, gard_id, gard_file)

AddCameraConfiguration(camconf_id, camconf_file) ==
    AddModule("AddCameraConfiguration", 5, MODULE_CAM_CFG_START_ID,
              MODULE_CAM_CFG_END_ID, FALSE, camconf_id, camconf_file)

(***************************************************************************)
(* write_flash_layout_from_args, lines 429-463: --rfsconf with the key     *)
(* UIDOfFirmwareToBoot.                                                    *)
(***************************************************************************)
RfsConf(boot) ==
    /\ builder = "root" /\ pc = "modules"
    /\ stage < 6
    /\ stage' = 6
    /\ lastOp' = Call("RfsConf", boot, MissingFile)
    /\ config_instance' = [config_instance EXCEPT
                             !.uid_of_firmware_to_boot = boot]
    /\ first_UID' = Some(boot)
    /\ UNCHANGED << builder, inputs, args, pc, err, ALIGNMENT_VALUE,
                    dir1_offset, dir_copies, module_offset, dir_entries, outfile,
                    returned, registered >>
    /\ UNCHANGED cameraVars
    /\ UNCHANGED xlateVars
    /\ Logged

(***************************************************************************)
(* write_flash_layout_from_args, lines 453-458: --rfsconf with the key     *)
(* StartOfDirectory, given after UIDOfFirmwareToBoot when both are given.  *)
(***************************************************************************)
RfsConfStartOfDirectory(start) ==
    /\ builder = "root" /\ pc = "modules"
    /\ stage < 7
    /\ stage' = 7
    /\ lastOp' = Call("RfsConfStartOfDirectory", start, MissingFile)
    /\ config_instance' = [config_instance EXCEPT
                             !.start_of_directory = start]
    /\ IF (start % ALIGNMENT_VALUE) # 0
       THEN Raise("start_not_aligned")
       ELSE IF start < dir1_offset
       THEN Raise("start_below_directory")
       ELSE pc' = pc /\ err' = "none"
    /\ UNCHANGED << builder, inputs, args, ALIGNMENT_VALUE, dir1_offset,
                    dir_copies, module_offset, first_UID, dir_entries, outfile,
                    returned, registered >>
    /\ UNCHANGED cameraVars
    /\ UNCHANGED xlateVars
    /\ Logged

(***************************************************************************)
(* write_flash_layout_from_args, lines 470-476, and                        *)
(* FlashLayout.WriteConfigurationToFile.                                   *)
(***************************************************************************)
\* WriteConfigurationToFile called without lines 470-471
WriteConfigurationToFile_NoRefresh ==
    /\ builder = "root" /\ pc = "modules"
    /\ pc' = "directory"
    /\ lastOp' = Call("WriteConfigurationToFile", 0, MissingFile)
    /\ config_instance' = config_instance
    /\ outfile' = Append(outfile,
                         Write("header", configuration_address,
                               RUNTIME_CONF_SIZE,
                               get_configuration(config_instance')))
    /\ module_offset' = align_value(ALIGNMENT_VALUE,
                                    configuration_address + RUNTIME_CONF_SIZE)
    /\ UNCHANGED << builder, inputs, args, err, ALIGNMENT_VALUE, dir1_offset,
                    dir_copies, first_UID, dir_entries, stage, returned,
                    registered >>
    /\ UNCHANGED cameraVars
    /\ UNCHANGED xlateVars
    /\ Logged

WriteConfigurationToFile ==
    /\ builder = "root" /\ pc = "modules"
    /\ pc' = "directory"
    /\ lastOp' = Call("WriteConfigurationToFile", 0, MissingFile)
    /\ config_instance' =
          [config_instance EXCEPT
             !.start_of_directory = dir1_offset,
             !.size_of_directory =
                 Len(dir_entries) * config_instance.size_of_directory_entry]
    /\ outfile' = Append(outfile,
                         Write("header", configuration_address,
                               RUNTIME_CONF_SIZE,
                               get_configuration(config_instance')))
    /\ module_offset' = align_value(ALIGNMENT_VALUE,
                                    configuration_address + RUNTIME_CONF_SIZE)
    /\ UNCHANGED << builder, inputs, args, err, ALIGNMENT_VALUE, dir1_offset,
                    dir_copies, first_UID, dir_entries, stage, returned,
                    registered >>
    /\ UNCHANGED cameraVars
    /\ UNCHANGED xlateVars
    /\ Logged

(***************************************************************************)
(* FlashLayout.WriteDirectoryToFile.                                       *)
(***************************************************************************)
\* the writes of the while loop: `copies` more copies after a write that ended
\* at file position `tell`, each with the bytes of its own get_dir_entries
\* call on the list as the call before left it
RECURSIVE DirectoryCopies(_, _, _, _, _)
DirectoryCopies(alignment, copies, tell, table, first) ==
    IF copies <= 0 THEN << >>
    ELSE LET at == align_value(alignment, tell)
             bytes == get_dir_entries(table, first)
         IN  << Write("directory", at, Len(bytes), bytes) >>
             \o DirectoryCopies(alignment, copies - 1, at + Len(bytes),
                                get_dir_entries_list(table, first), first)

\* the list after n calls of get_dir_entries
RECURSIVE Serialized(_, _, _)
Serialized(table, first, n) ==
    IF n <= 0 THEN table
    ELSE Serialized(get_dir_entries_list(table, first), first, n - 1)

WriteDirectoryToFile ==
    /\ builder = "root" /\ pc = "directory"
    /\ lastOp' = Call("WriteDirectoryToFile", 0, MissingFile)
    /\ IF get_dir_entries_raises(dir_entries, first_UID)
       THEN /\ Raise("index")
            /\ UNCHANGED << dir_entries, returned, outfile, dir1_offset,
                            dir_copies >>
       ELSE LET bytes == get_dir_entries(dir_entries, first_UID)
                more == DirectoryCopies(ALIGNMENT_VALUE, dir_copies - 1,
                                        dir1_offset + Len(bytes),
                                        Serialized(dir_entries, first_UID, 1),
                                        first_UID)
            IN  /\ pc' = "done" /\ err' = "none"
                /\ dir_entries' = Serialized(dir_entries, first_UID,
                                             1 + Len(more))
                /\ returned' = IF more = << >> THEN bytes
                               ELSE more[Len(more)].data
                /\ outfile' =
                      outfile
                      \o << Write("directory", dir1_offset, Len(bytes),
                                  bytes) >>
                      \o more
                /\ dir1_offset' = IF more = << >> THEN dir1_offset
                                  ELSE more[Len(more)].at
                /\ dir_copies' = IF dir_copies - 1 > 0 THEN 0
                                 ELSE dir_copies - 1
    /\ UNCHANGED << builder, inputs, args, ALIGNMENT_VALUE, module_offset,
                    config_instance, first_UID, stage, registered >>
    /\ UNCHANGED cameraVars
    /\ UNCHANGED xlateVars
    /\ Logged

RootNext ==
    \/ ConfigureLayout
    \/ \E uid \in inputs.uids, file \in inputs.files : AddMLFirmware(uid, file)
    \/ \E uid \in inputs.uids, file \in inputs.files : AddAppProfile(uid, file)
    \/ \E uid \in inputs.uids, file \in inputs.files : AddAppData(uid, file)
    \/ \E uid \in inputs.uids, file \in inputs.files :
          AddGARDFirmware(uid, file)
    \/ \E uid \in inputs.uids, file \in inputs.files :
          AddCameraConfiguration(uid, file)
    \/ \E boot \in inputs.boots : RfsConf(boot)
    \/ WriteConfigurationToFile
    \/ WriteDirectoryToFile

\* the root script when --rfsconf may give StartOfDirectory
RootStartNext ==
    \/ RootNext
    \/ \E start \in StartInputs : RfsConfStartOfDirectory(start)

(***************************************************************************)
(* CameraConfigBuilder.py: write_camera_config_layout_from_args.           *)
(***************************************************************************)
\* lines 363-410: count the entries, set the payload offset, then
\* write_camera_info_to_file(BASIC_CAMERA_CONFIG, get_configuration())
write_camera_info_to_file ==
    /\ builder = "camera" /\ pc = "start"
    /\ lastOp' = Call("write_camera_info_to_file", BASIC_CAMERA_CONFIG,
                      BASIC_CONF_SIZE)
    /\ LET count == (IF args.basicconf THEN 1 ELSE 0) + args.camconfcmnd
           offset == count * DIR_ENTRY_SIZE
           result == add_entry_result(cc_dir_entries, BASIC_CAMERA_CONFIG,
                                      offset, BASIC_CONF_SIZE)
       IN  /\ count_of_dir_entries' = count
           /\ cc_dir_entries' = add_entry(cc_dir_entries, BASIC_CAMERA_CONFIG,
                                          offset, BASIC_CONF_SIZE)
           /\ IF result = "ok"
              THEN /\ pc' = "commands" /\ err' = "none"
                   /\ outfile' = Append(outfile,
                                        Write("info", offset, BASIC_CONF_SIZE,
                                              count))
                   /\ confg_cmnd_pyld_offset' = Some(offset + BASIC_CONF_SIZE)
                   /\ registered' =
                         Append(registered, << BASIC_CAMERA_CONFIG, offset,
                                               BASIC_CONF_SIZE >>)
              ELSE /\ Raise(result)
                   /\ outfile' = outfile
                   /\ confg_cmnd_pyld_offset' = Some(offset)
                   /\ registered' = registered
    /\ cmnds_done' = 0
    /\ UNCHANGED << builder, inputs, args, returned >>
    /\ UNCHANGED rootVars
    /\ UNCHANGED xlateVars
    /\ Logged

\* the same with every payload padded to a multiple of 4 bytes
write_camera_config_to_file_Padded(uid, infile) ==
    /\ builder = "camera" /\ pc = "commands"
    /\ cmnds_done < args.camconfcmnd
    /\ cmnds_done' = cmnds_done + 1
    /\ lastOp' = Call("write_camera_config_to_file", uid, infile)
    /\ IF infile = MissingFile
       THEN /\ Raise("missing")
            /\ UNCHANGED << cc_dir_entries, outfile, confg_cmnd_pyld_offset,
                            registered >>
       ELSE LET offset == confg_cmnd_pyld_offset[1]
                result == add_entry_result(cc_dir_entries, uid, offset, infile)
            IN  /\ cc_dir_entries' = add_entry(cc_dir_entries, uid, offset,
                                               infile)
                /\ IF result = "ok"
                   THEN /\ pc' = pc /\ err' = "none"
                        /\ outfile' = Append(outfile,
                                             Write("command", offset, infile,
                                                   uid))
                        /\ confg_cmnd_pyld_offset' =
                              Some(align_value(4, offset + infile))
                        /\ registered' =
                              Append(registered, << uid, offset, infile >>)
                   ELSE /\ Raise(result)
                        /\ UNCHANGED << outfile, confg_cmnd_pyld_offset,
                                        registered >>
    /\ UNCHANGED << builder, inputs, args, count_of_dir_entries, returned >>
    /\ UNCHANGED rootVars
    /\ UNCHANGED xlateVars
    /\ Logged

\* the same with the payload written before add_entry is called
write_camera_config_to_file_WriteFirst(uid, infile) ==
    /\ builder = "camera" /\ pc = "commands"
    /\ cmnds_done < args.camconfcmnd
    /\ cmnds_done' = cmnds_done + 1
    /\ lastOp' = Call("write_camera_config_to_file", uid, infile)
    /\ IF infile = MissingFile
       THEN /\ Raise("missing")
            /\ UNCHANGED << cc_dir_entries, outfile, confg_cmnd_pyld_offset,
                            registered >>
       ELSE LET offset == confg_cmnd_pyld_offset[1]
                result == add_entry_result(cc_dir_entries, uid, offset, infile)
            IN  /\ cc_dir_entries' = add_entry(cc_dir_entries, uid, offset,
                                               infile)
                /\ IF result = "ok"
                   THEN /\ pc' = pc /\ err' = "none"
                        /\ outfile' = Append(outfile,
                                             Write("command", offset, infile,
                                                   uid))
                        /\ confg_cmnd_pyld_offset' = Some(offset + infile)
                        /\ registered' =
                              Append(registered, << uid, offset, infile >>)
                   ELSE /\ Raise(result)
                        /\ outfile' = Append(outfile,
                                             Write("command", offset, infile,
                                                   uid))
                        /\ confg_cmnd_pyld_offset' = Some(offset + infile)
                        /\ registered' = registered
    /\ UNCHANGED << builder, inputs, args, count_of_dir_entries, returned >>
    /\ UNCHANGED rootVars
    /\ UNCHANGED xlateVars
    /\ Logged

\* one --camconfcmnd entry: CameraConfigBuilder.write_camera_config_to_file
write_camera_config_to_file(uid, infile) ==
    /\ builder = "camera" /\ pc = "commands"
    /\ cmnds_done < args.camconfcmnd
    /\ cmnds_done' = cmnds_done + 1
    /\ lastOp' = Call("write_camera_config_to_file", uid, infile)
    /\ IF infile = MissingFile
       THEN /\ Raise("missing")
            /\ UNCHANGED << cc_dir_entries, outfile, confg_cmnd_pyld_offset,
                            registered >>
       ELSE LET offset == confg_cmnd_pyld_offset[1]
                result == add_entry_result(cc_dir_entries, uid, offset, infile)
            IN  /\ cc_dir_entries' = add_entry(cc_dir_entries, uid, offset,
                                               infile)
                /\ IF result = "ok"
                   THEN /\ pc' = pc /\ err' = "none"
                        /\ outfile' = Append(outfile,
                                             Write("command", offset, infile,
                                                   uid))
                        /\ confg_cmnd_pyld_offset' = Some(offset + infile)
                        /\ registered' =
                              Append(registered, << uid, offset, infile >>)
                   ELSE /\ Raise(result)
                        /\ UNCHANGED << outfile, confg_cmnd_pyld_offset,
                                        registered >>
    /\ UNCHANGED << builder, inputs, args, count_of_dir_entries, returned >>
    /\ UNCHANGED rootVars
    /\ UNCHANGED xlateVars
    /\ Logged

\* CameraConfigBuilder.write_cc_dir_to_file, after the last command
write_cc_dir_to_file ==
    /\ builder = "camera" /\ pc = "commands"
    /\ cmnds_done = args.camconfcmnd
    /\ lastOp' = Call("write_cc_dir_to_file", 0, MissingFile)
    /\ LET bytes == get_dir_entries(cc_dir_entries, None)
       IN  /\ cc_dir_entries' = get_dir_entries_list(cc_dir_entries, None)
           /\ returned' = bytes
           /\ outfile' = Append(outfile,
                                Write("directory", 0, Len(bytes), bytes))
    /\ pc' = "done" /\ err' = "none"
    /\ UNCHANGED << builder, inputs, args, confg_cmnd_pyld_offset,
                    count_of_dir_entries, cmnds_done, registered >>
    /\ UNCHANGED rootVars
    /\ UNCHANGED xlateVars
    /\ Logged

CameraNext ==
    \/ write_camera_info_to_file
    \/ \E uid \in CmdUIDInputs, infile \in inputs.files :
          write_camera_config_to_file(uid, infile)
    \/ write_cc_dir_to_file

(***************************************************************************)
(* xlate_camera_config.py: I2CBinGenerator.                                *)
(* A line of the input file is blank, a whole-line comment, or a list of   *)
(* comma-separated fields; a field is known by what parse_bytes returns    *)
(* for it: a byte 0 .. 255, or None (NoByte).                              *)
(***************************************************************************)
NoByte == -1

Blank == [kind |-> "blank", fields |-> << >>]
Comment == [kind |-> "comment", fields |-> << >>]
Fields(parts) == [kind |-> "fields", fields |-> parts]

\* the lines a register script is made of
LineInputs ==
    { Blank, Comment, Fields(<< NoByte >>), Fields(<< 0, 7 >>),
      Fields(<< 16 >>), Fields(<< 16, 170, 187 >>), Fields(<< 32, 204, 221 >>),
      Fields(<< 127, NoByte, 238 >>), Fields(<< 133, 1, 2 >>),
      Fields(<< 128 >>), Fields(<< 16, 255, 255, 255, 255, 4 >>) }

\* the files of at most n lines
Files(lines, n) == UNION {[1 .. k -> lines] : k \in 0 .. n}

\* lines 96-100: the bytes of the fields that parse_bytes could parse
ParsedVals(line) == SelectSeq(line.fields, LAMBDA b : b # NoByte)

\* lines 79-108: the line adds no entry
LineSkipped(line) ==
    \/ line.kind # "fields"
    \/ line.fields = << >>
    \/ ParsedVals(line) = << >>
    \/ ParsedVals(line)[1] = 0

\* an entry whose special encoding keeps the first byte as it is
LineEntry_FirstKept(line) ==
    LET vals == ParsedVals(line)
        first == vals[1]
    IN  IF first >= 128
        THEN << 255, 255, 255, 255, 4 >> \o PackU32(first) \o Tail(vals)
        ELSE Tail(vals)

\* lines 105-117: the entry of a line that is not skipped; first is a byte,
\* so (first - 0x80) & 0xFFFFFFFF is first - 0x80
LineEntry(line) ==
    LET vals == ParsedVals(line)
        first == vals[1]
    IN  IF first >= 128
        THEN << 255, 255, 255, 255, 4 >> \o PackU32(first - 128) \o Tail(vals)
        ELSE Tail(vals)

RECURSIVE extract_entries(_)
extract_entries(lines) ==
    IF lines = << >> THEN << >>
    ELSE IF LineSkipped(Head(lines)) THEN extract_entries(Tail(lines))
    ELSE << LineEntry(Head(lines)) >> \o extract_entries(Tail(lines))

\* f.tell() of a file that is only written sequentially
RECURSIVE Tell(_)
Tell(log) == IF log = << >> THEN 0 ELSE Head(log).len + Tell(Tail(log))

\* f.write(data) at the end of the file
FWrite(log, kind, data) ==
    Append(log, Write(kind, Tell(log), Len(data), data))

\* lines 139-151: the (cnt, prev) pairs of the buffered entries from index i
RECURSIVE GroupsFrom(_, _, _, _)
GroupsFrom(buffer, i, prev, cnt) ==
    IF i > Len(buffer) THEN << << cnt, prev >> >>
    ELSE IF Len(buffer[i]) = prev
    THEN GroupsFrom(buffer, i + 1, prev, cnt + 1)
    ELSE << << cnt, prev >> >> \o GroupsFrom(buffer, i + 1, Len(buffer[i]), 1)

Groups(buffer) ==
    IF buffer = << >> THEN << >>
    ELSE GroupsFrom(buffer, 2, Len(buffer[1]), 1)

\* line 160: (entry[:blen] + [0] * blen)[:blen]
PaddedRow(entry, blen) ==
    SubSeq(SubSeq(entry, 1, IF Len(entry) < blen THEN Len(entry) ELSE blen)
           \o [i \in 1 .. blen |-> 0], 1, blen)

\* lines 158-162: the rows idx+1 .. idx+cnt of the buffer
RECURSIVE WriteRows(_, _, _, _, _)
WriteRows(log, buffer, idx, cnt, blen) ==
    IF cnt = 0 THEN log
    ELSE WriteRows(FWrite(log, "row", PaddedRow(buffer[idx + 1], blen)),
                   buffer, idx + 1, cnt - 1, blen)

\* lines 154-162: one count, one length and cnt rows for each group
RECURSIVE WriteGroups(_, _, _, _)
WriteGroups(log, buffer, groups, idx) ==
    IF groups = << >> THEN log
    ELSE LET cnt == Head(groups)[1]
             blen == Head(groups)[2]
         IN  WriteGroups(
                 WriteRows(FWrite(FWrite(log, "count", PackU32(cnt)),
                                  "length", << blen >>),
                           buffer, idx, cnt, blen),
                 buffer, Tail(groups), idx + cnt)

\* the file after write_normal_buffer(); the rows of this model are shorter
\* than 256 bytes, so blen.to_bytes(1, 'little') does not raise
write_normal_buffer(log, buffer) ==
    WriteGroups(log, buffer, Groups(buffer), 0)

\* the test of line 168
HasSpecialPrefix(entry) ==
    Len(entry) >= 5 /\ SubSeq(entry, 1, 4) = << 255, 255, 255, 255 >>

\* generate_bin, lines 128-131
generate_bin_open ==
    /\ builder = "transcoder" /\ pc = "start"
    /\ pc' = "entries"
    /\ lastOp' = Call("extract_entries", 0, MissingFile)
    /\ entries' = extract_entries(input_file)
    /\ normal_entries_buffer' = << >>
    /\ outfile' = << >>
    /\ UNCHANGED << builder, inputs, args, err, returned, registered,
                    input_file, entry_no >>
    /\ UNCHANGED rootVars
    /\ UNCHANGED cameraVars
    /\ Logged

\* the loop body without the call of write_normal_buffer() of line 169
generate_bin_entry_NoFlush ==
    /\ builder = "transcoder" /\ pc = "entries"
    /\ entry_no < Len(entries)
    /\ entry_no' = entry_no + 1
    /\ lastOp' = Call("generate_bin_entry", entry_no + 1, MissingFile)
    /\ LET entry == entries[entry_no + 1]
       IN  IF HasSpecialPrefix(entry)
           THEN /\ outfile' = FWrite(outfile, "special", entry)
                /\ normal_entries_buffer' = normal_entries_buffer
           ELSE /\ normal_entries_buffer' = Append(normal_entries_buffer, entry)
                /\ outfile' = outfile
    /\ UNCHANGED << builder, inputs, args, pc, err, returned, registered,
                    input_file, entries >>
    /\ UNCHANGED rootVars
    /\ UNCHANGED cameraVars
    /\ Logged

\* generate_bin, lines 167-172: one iteration of the loop over the entries
generate_bin_entry ==
    /\ builder = "transcoder" /\ pc = "entries"
    /\ entry_no < Len(entries)
    /\ entry_no' = entry_no + 1
    /\ lastOp' = Call("generate_bin_entry", entry_no + 1, MissingFile)
    /\ LET entry == entries[entry_no + 1]
       IN  IF HasSpecialPrefix(entry)
           THEN /\ outfile' = FWrite(write_normal_buffer(outfile,
                                                         normal_entries_buffer),
                                     "special", entry)
                /\ normal_entries_buffer' = << >>
           ELSE /\ normal_entries_buffer' = Append(normal_entries_buffer, entry)
                /\ outfile' = outfile
    /\ UNCHANGED << builder, inputs, args, pc, err, returned, registered,
                    input_file, entries >>
    /\ UNCHANGED rootVars
    /\ UNCHANGED cameraVars
    /\ Logged

\* generate_bin, line 174: the buffer is written after the last entry
generate_bin_close ==
    /\ builder = "transcoder" /\ pc = "entries"
    /\ entry_no = Len(entries)
    /\ pc' = "done"
    /\ lastOp' = Call("generate_bin_close", 0, MissingFile)
    /\ outfile' = write_normal_buffer(outfile, normal_entries_buffer)
    /\ normal_entries_buffer' = << >>
    /\ UNCHANGED << builder, inputs, args, err, returned, registered,
                    input_file, entries, entry_no >>
    /\ UNCHANGED rootVars
    /\ UNCHANGED cameraVars
    /\ Logged

XlateNext ==
    \/ generate_bin_open
    \/ generate_bin_entry
    \/ generate_bin_close

\* the transcoder run on a register script of at most MaxLines lines
InitXlate ==
    /\ Constructed
    /\ firstRun = None
    /\ inputs = Inputs({}, {}, {}, 0)
    /\ builder = "transcoder"
    /\ args = [input_file |-> "camera.txt", output_file |-> "camera.bin"]
    /\ input_file \in Files(LineInputs, MaxLines)

(***************************************************************************)
(* The same command run a second time.  Each script builds its objects in  *)
(* its __main__ block and opens the output file for writing, so a second   *)
(* run starts from the state after construction with an empty output file; *)
(* it gets the command line and the input files of the first run, that is, *)
(* it makes the calls of the first run in the same order.                  *)
(***************************************************************************)
\* what a run leaves behind
Outcome ==
    [ script |-> script, pc |-> pc, err |-> err, outfile |-> outfile,
      returned |-> returned, dir_entries |-> dir_entries,
      cc_dir_entries |-> cc_dir_entries ]

\* a second builder made by the process of the first run: the class-level
\* lists of directory entries keep the entries of the first run
Restart_SameProcess ==
    /\ pc \in {"done", "failed"} /\ firstRun = None
    /\ firstRun' = Some(Outcome)
    /\ pc' = "start" /\ err' = "none"
    /\ lastOp' = Call("none", 0, MissingFile)
    /\ ALIGNMENT_VALUE' = DEFAULT_ALIGNMENT_VALUE
    /\ dir1_offset' = 0 /\ dir_copies' = 1
    /\ module_offset' = 0 + DEFAULT_ALIGNMENT_VALUE
    /\ config_instance' = RfsConfigurationInit
    /\ first_UID' = None /\ stage' = 0
    /\ confg_cmnd_pyld_offset' = None /\ count_of_dir_entries' = 0
    /\ cmnds_done' = 0
    /\ outfile' = << >> /\ returned' = << >> /\ registered' = << >>
    /\ entries' = << >> /\ normal_entries_buffer' = << >> /\ entry_no' = 0
    /\ script' = << >>
    /\ UNCHANGED << builder, inputs, args, input_file, dir_entries,
                    cc_dir_entries >>

\* the command is run again after the first run has ended
Restart ==
    /\ pc \in {"done", "failed"} /\ firstRun = None
    /\ firstRun' = Some(Outcome)
    /\ pc' = "start" /\ err' = "none"
    /\ lastOp' = Call("none", 0, MissingFile)
    /\ ALIGNMENT_VALUE' = DEFAULT_ALIGNMENT_VALUE
    /\ dir1_offset' = 0 /\ dir_copies' = 1
    /\ module_offset' = 0 + DEFAULT_ALIGNMENT_VALUE
    /\ config_instance' = RfsConfigurationInit
    /\ first_UID' = None /\ stage' = 0
    /\ dir_entries' = << >> /\ cc_dir_entries' = << >>
    /\ confg_cmnd_pyld_offset' = None /\ count_of_dir_entries' = 0
    /\ cmnds_done' = 0
    /\ outfile' = << >> /\ returned' = << >> /\ registered' = << >>
    /\ entries' = << >> /\ normal_entries_buffer' = << >> /\ entry_no' = 0
    /\ script' = << >>
    /\ UNCHANGED << builder, inputs, args, input_file >>

\* the calls of a second run are those of the first
SameCalls ==
    firstRun # None
        => /\ Len(script') <= Len(firstRun[1].script)
           /\ script' = SubSeq(firstRun[1].script, 1, Len(script'))

\* a step of a script that is run twice
Twice(step) == step /\ SameCalls

NextTwice ==
    \/ Twice(ConfigureLayout)
    \/ \E uid \in inputs.uids, file \in inputs.files :
          Twice(AddMLFirmware(uid, file))
    \/ \E uid \in inputs.uids, file \in inputs.files :
          Twice(AddAppProfile(uid, file))
    \/ \E uid \in inputs.uids, file \in inputs.files :
          Twice(AddAppData(uid, file))
    \/ \E uid \in inputs.uids, file \in inputs.files :
          Twice(AddGARDFirmware(uid, file))
    \/ \E uid \in inputs.uids, file \in inputs.files :
          Twice(AddCameraConfiguration(uid, file))
    \/ \E boot \in inputs.boots : Twice(RfsConf(boot))
    \/ Twice(WriteConfigurationToFile)
    \/ Twice(WriteDirectoryToFile)
    \/ Twice(write_camera_info_to_file)
    \/ \E uid \in CmdUIDInputs, infile \in inputs.files :
          Twice(write_camera_config_to_file(uid, infile))
    \/ Twice(write_cc_dir_to_file)
    \/ Twice(generate_bin_open)
    \/ Twice(generate_bin_entry)
    \/ Twice(generate_bin_close)
    \/ Restart

\* the lines of the register scripts that are transcoded twice
TwiceLineInputs ==
    { Comment, Fields(<< 16, 170 >>), Fields(<< 133, 1, 2 >>),
      Fields(<< 16, 255, 255, 255, 255, 4 >>) }

\* one of the three scripts, to be run twice
InitTwice ==
    /\ Constructed
    /\ firstRun = None
    /\ inputs = Inputs({4097, 8193, 12289, 16385, 20481}, {MissingFile, 4, 5},
                       BootInputs, MaxTwice)
    /\ \/ /\ builder = "root"
          /\ args \in RootArgs({0, 4, DEFAULT_ERASE_BLOCK_ALIGNMENT}, {0, 1, 2})
          /\ input_file = << >>
       \/ /\ builder = "camera"
          /\ args \in [ erase_block_alignment : {0}, dir_copies : {0},
                        basicconf : BOOLEAN, camconfcmnd : 0 .. MaxTwice ]
          /\ input_file = << >>
       \/ /\ builder = "transcoder"
          /\ args = [input_file |-> "camera.txt", output_file |-> "camera.bin"]
          /\ input_file \in Files(TwiceLineInputs, MaxTwice)

(***************************************************************************)
(* A second builder in the process of the first. FlashLayout.__init__ and  *)
(* CameraConfigBuilder.__init__ make a new configuration and a new         *)
(* directory object; first_UID and the layout fields are set on instances, *)
(* while dir_entries is a list bound in the class body of Directory and of *)
(* CameraConfigDirectory, which add_entry and get_dir_entries change in    *)
(* place.                                                                  *)
(***************************************************************************)
NewBuilder ==
    /\ builder \in {"root", "camera"}
    /\ pc \in {"done", "failed"} /\ firstRun = None
    /\ firstRun' = Some(Outcome)
    /\ pc' = "start" /\ err' = "none"
    /\ lastOp' = Call("none", 0, MissingFile)
    /\ ALIGNMENT_VALUE' = DEFAULT_ALIGNMENT_VALUE
    /\ dir1_offset' = 0 /\ dir_copies' = 1
    /\ module_offset' = 0 + DEFAULT_ALIGNMENT_VALUE
    /\ config_instance' = RfsConfigurationInit
    /\ first_UID' = None /\ stage' = 0
    /\ dir_entries' = dir_entries /\ cc_dir_entries' = cc_dir_entries
    /\ confg_cmnd_pyld_offset' = None /\ count_of_dir_entries' = 0
    /\ cmnds_done' = 0
    /\ outfile' = << >> /\ returned' = << >> /\ registered' = << >>
    /\ script' = << >>
    /\ UNCHANGED << builder, inputs, args >>
    /\ UNCHANGED xlateVars

\* a process that builds one image and then makes a second builder
NextBuilders == RootNext \/ CameraNext \/ NewBuilder

\* the root or the camera builder, used twice by one process
InitBuilders ==
    /\ Constructed
    /\ input_file = << >> /\ firstRun = None
    /\ inputs = Inputs({4097, 8193}, {MissingFile, 4}, BootInputs,
                       MaxBuilderModules)
    /\ \/ /\ builder = "root"
          /\ args \in RootArgs({64, DEFAULT_ERASE_BLOCK_ALIGNMENT}, {1, 2})
       \/ /\ builder = "camera"
          /\ args \in [ erase_block_alignment : {0}, dir_copies : {0},
                        basicconf : BOOLEAN, camconfcmnd : 0 .. 1 ]

Next == RootNext \/ CameraNext

Spec == Init /\ [][Next]_vars

SpecDefault == InitDefault /\ [][RootNext]_vars

SpecPin == InitPin /\ [][RootNext]_vars

SpecXlate == InitXlate /\ [][XlateNext]_vars

SpecTwice == InitTwice /\ [][NextTwice]_vars

SpecStart == InitStart /\ [][RootStartNext]_vars

SpecBuilders == InitBuilders /\ [][NextBuilders]_vars

(***************************************************************************)
(* Vocabulary of the properties.                                           *)
(***************************************************************************)
AddOps == {"AddGARDFirmware", "AddMLFirmware", "AddCameraConfiguration",
           "AddAppProfile", "AddAppData"}

\* the identifier range the specification gives to each Add* call
CategoryRange(op) ==
    CASE op = "AddGARDFirmware" -> 4097 .. 8190
      [] op = "AddMLFirmware" -> 8193 .. 12287
      [] op = "AddCameraConfiguration" -> 12289 .. 16383
      [] op = "AddAppProfile" -> 16385 .. 20479
      [] op = "AddAppData" -> 20481 .. 24575

PowersOfTwo == {2 ^ k : k \in 0 .. 30}

\* the (identifier, offset, size) records held by a serialized directory
Decode(bytes) ==
    [i \in 1 .. (Len(bytes) \div 12) |->
        UnpackEntry(SubSeq(bytes, 12 * (i - 1) + 1, 12 * i))]

DistinctUIDs(table) ==
    \A i, j \in 1 .. Len(table) :
        i # j => EntryUID(table[i]) # EntryUID(table[j])

\* the last step called add_entry of `table` with a present uid
AddedPresent(table, ops, validation) ==
    /\ lastOp'.op \in ops
    /\ err' \notin validation
    /\ HasUID(table, lastOp'.uid)

ModuleWrites == {i \in 1 .. Len(outfile) : outfile[i].kind = "module"}

\* a sequence without its i-th element
Without(seq, i) == SubSeq(seq, 1, i - 1) \o SubSeq(seq, i + 1, Len(seq))

\* the last call was AddAppData with an identifier of its range and a file
\* that exists
AppDataValidated ==
    /\ lastOp.op = "AddAppData"
    /\ lastOp.uid \in CategoryRange("AddAppData")
    /\ lastOp.file # MissingFile

(***************************************************************************)
(* C1: in a root build every module written through an Add* call starts at *)
(* a file offset that is a multiple of the configured alignment.           *)
(***************************************************************************)
C1_ModuleStartAligned ==
    (builder = "root" /\ args.erase_block_alignment \in PowersOfTwo)
        => \A i \in ModuleWrites : outfile[i].at % ALIGNMENT_VALUE = 0

(***************************************************************************)
(* C2: in both directory tables add_entry with an identifier already       *)
(* present raises and leaves the table as it was, and the identifiers of a *)
(* table are pairwise distinct in every state.                             *)
(***************************************************************************)
C2_DuplicateRejected ==
    [][ /\ AddedPresent(dir_entries, AddOps, {"range", "missing", "size"})
            => err' = "dup"
        /\ AddedPresent(cc_dir_entries, {"write_camera_config_to_file"},
                        {"missing"})
            => err' = "dup"
        /\ err' = "dup" => /\ dir_entries' = dir_entries
                           /\ cc_dir_entries' = cc_dir_entries
        /\ DistinctUIDs(dir_entries')
        /\ DistinctUIDs(cc_dir_entries') ]_vars

C2_Witness ==
    /\ builder = "camera" /\ err = "dup"
    /\ Len(cc_dir_entries) = 2
    /\ lastOp.uid = 4113

(***************************************************************************)
(* C3: with no pinned identifier, the directory serialized after N         *)
(* successful add_entry calls is N x 12 bytes: the records of the N        *)
(* entries in insertion order, each with its registered offset and size.   *)
(***************************************************************************)
C3_SerializedInInsertionOrder ==
    (pc = "done" /\ first_UID = None)
        => /\ Len(returned) = 12 * Len(registered)
           /\ Decode(returned) = registered

C3_Witness ==
    /\ builder = "root" /\ pc = "done" /\ first_UID = None
    /\ Len(registered) = 2
    /\ registered[1][1] > registered[2][1]

(***************************************************************************)
(* C4: when the pinned identifier is in the table, the serialized          *)
(* directory has that entry first and the other entries after it in their  *)
(* insertion order; no entry is lost or duplicated.                        *)
(***************************************************************************)
C4_PinnedFirstRestInOrder ==
    (builder = "root" /\ pc = "done" /\ first_UID # None)
        => \A i \in 1 .. Len(registered) :
              registered[i][1] = first_UID[1]
                 => Decode(returned)
                       = << registered[i] >> \o Without(registered, i)

C4_Witness ==
    /\ pc = "done" /\ first_UID = Some(4098)
    /\ Len(registered) = 3
    /\ << registered[1][1], registered[2][1], registered[3][1] >>
          = << 4099, 4097, 4098 >>
    /\ << Decode(returned)[1][1], Decode(returned)[2][1],
          Decode(returned)[3][1] >> = << 4098, 4099, 4097 >>

(***************************************************************************)
(* C5: when a pinned identifier is set and no entry has it, serializing    *)
(* raises no error and returns the entries in insertion order, also for a  *)
(* table with no entries.                                                  *)
(***************************************************************************)
C5_AbsentPinKeepsOrder ==
    ( /\ lastOp.op = "WriteDirectoryToFile"
      /\ first_UID # None
      /\ \A i \in 1 .. Len(registered) : registered[i][1] # first_UID[1] )
        => err = "none" /\ Decode(returned) = registered

(***************************************************************************)
(* C6: an Add* call rejects the identifier as out of range exactly when it *)
(* lies outside the call's own category; an identifier the call registers  *)
(* is the one passed, and every identifier in the directory lies in        *)
(* exactly one category.                                                   *)
(***************************************************************************)
C6_RangePerCall ==
    /\ lastOp.op \in AddOps
          => /\ err = "range" <=> lastOp.uid \notin CategoryRange(lastOp.op)
             /\ err = "none" => registered[Len(registered)][1] = lastOp.uid
    /\ \A i \in 1 .. Len(dir_entries) :
          Cardinality({op \in AddOps :
                          EntryUID(dir_entries[i]) \in CategoryRange(op)}) = 1

C6_Witness ==
    /\ lastOp.op = "AddGARDFirmware" /\ lastOp.uid = 8191 /\ err = "range"
    /\ Len(dir_entries) = 1 /\ EntryUID(dir_entries[1]) = 12287

(***************************************************************************)
(* C7 as stated: AddAppData with an in-range identifier and an existing    *)
(* file succeeds if and only if the file size is a multiple of 4.          *)
(***************************************************************************)
C7_SucceedsIffMultipleOf4 ==
    AppDataValidated => (err = "none" <=> lastOp.file % 4 = 0)

(***************************************************************************)
(* C7 as amended: AddAppData with an in-range identifier and an existing   *)
(* file raises the size error exactly when the size is not a multiple of   *)
(* 4, and then nothing is written, the cursor and the directory stay; a    *)
(* multiple of 4 is written at the module cursor (the call can still fail  *)
(* after the write).  No other Add* call raises the size error.            *)
(***************************************************************************)
C7_AppDataSizeCheck ==
    [][ /\ AppDataValidated' => (err' = "size" <=> lastOp'.file % 4 # 0)
        /\ lastOp'.op \in AddOps \ {"AddAppData"} => err' # "size"
        /\ err' = "size" => UNCHANGED << outfile, module_offset, dir_entries >>
        /\ (AppDataValidated' /\ lastOp'.file % 4 = 0)
              => outfile' = Append(outfile,
                                   Write("module", module_offset,
                                         lastOp'.file, lastOp'.uid)) ]_vars

C7_Witness ==
    /\ lastOp.op = "AddAppData" /\ lastOp.uid = 24575 /\ lastOp.file = 5
    /\ err = "size"
    /\ Len(outfile) = 1

(***************************************************************************)
(* C8: an alignment that is not a power of two makes the root build fail   *)
(* before anything is written; a power of two is used as given.            *)
(***************************************************************************)
C8_NonPowerOfTwoRejected ==
    (builder = "root" /\ pc # "start")
        => IF args.erase_block_alignment \in PowersOfTwo
           THEN ALIGNMENT_VALUE = args.erase_block_alignment
           ELSE pc = "failed" /\ outfile = << >>

(***************************************************************************)
(* C9: a number of directory copies smaller than 1 makes the root build    *)
(* fail before any module is written.                                      *)
(***************************************************************************)
C9_CopiesBelowOneRejected ==
    ( /\ builder = "root" /\ pc # "start"
      /\ args.erase_block_alignment \in PowersOfTwo
      /\ args.dir_copies < 1 )
        => pc = "failed" /\ outfile = << >>

(***************************************************************************)
(* C10: after layout initialisation with alignment A and C directory       *)
(* copies the header is at offset 0, the first directory region starts at  *)
(* A and the first module is written at A x (1 + C).                       *)
(***************************************************************************)
C10_RegionsAfterInit ==
    ( /\ builder = "root" /\ pc = "modules"
      /\ args.erase_block_alignment \in PowersOfTwo )
        => /\ configuration_address = 0
           /\ dir1_offset = ALIGNMENT_VALUE
           /\ outfile = << >>
                 => module_offset = ALIGNMENT_VALUE * (1 + dir_copies)
           /\ outfile # << >>
                 => outfile[1].at = ALIGNMENT_VALUE * (1 + dir_copies)

\* the writes of the directory made by WriteDirectoryToFile, in order
DirectoryWrites == SelectSeq(outfile, LAMBDA w : w.kind = "directory")

(***************************************************************************)
(* C11: a root build with alignment A and C directory copies that has      *)
(* registered modules writes exactly C copies of the serialized directory, *)
(* copy k (k = 0 .. C-1) at file offset A x (1 + k).                       *)
(***************************************************************************)
C11_CopyInEachRegion ==
    ( /\ builder = "root" /\ pc = "done"
      /\ args.erase_block_alignment \in PowersOfTwo
      /\ args.dir_copies >= 1
      /\ registered # << >> )
        => /\ Len(DirectoryWrites) = args.dir_copies
           /\ \A k \in 1 .. Len(DirectoryWrites) :
                 /\ DirectoryWrites[k].at = args.erase_block_alignment * k
                 /\ DirectoryWrites[k].data = returned

(***************************************************************************)
(* C12: after layout initialisation no step of a root build lowers the     *)
(* module cursor.                                                          *)
(***************************************************************************)
C12_CursorNeverDecreases ==
    [][ (builder = "root" /\ pc # "start")
            => module_offset' >= module_offset ]_vars

(***************************************************************************)
(* Vocabulary of the transcoder properties.                                *)
(***************************************************************************)
\* the records of the input file: the parsed bytes of every line that is
\* neither blank, nor a comment, nor empty after parsing, nor led by 0x00
Records ==
    LET parsed == [i \in 1 .. Len(input_file) |->
                      IF input_file[i].kind = "fields"
                      THEN SelectSeq(input_file[i].fields,
                                     LAMBDA b : b \in 0 .. 255)
                      ELSE << >>]
    IN  SelectSeq(parsed, LAMBDA r : r # << >> /\ r[1] # 0)

IsSpecial(record) == record[1] >= 128
IsNormal(record) == record[1] \in 1 .. 127

\* the special encoding of a record
SpecialBytes(record) ==
    << 255, 255, 255, 255, 4, record[1] - 128, 0, 0, 0 >> \o Tail(record)

\* what a record contributes to the output besides group headers
Payload(record) ==
    IF IsSpecial(record) THEN SpecialBytes(record) ELSE Tail(record)

\* the writes of rows and of special records, in file order
PayloadWrites == SelectSeq(outfile, LAMBDA w : w.kind \in {"row", "special"})

\* the bytes of the output file
OutputBytes == Join([i \in 1 .. Len(outfile) |-> outfile[i].data])

\* record i opens a run of adjacent normal rows of equal length
OpensRun(i) ==
    /\ IsNormal(Records[i])
    /\ \/ i = 1
       \/ ~IsNormal(Records[i - 1])
       \/ Len(Records[i - 1]) # Len(Records[i])

\* the number of rows of the run that record i opens
RECURSIVE RunLength(_)
RunLength(i) ==
    IF /\ i < Len(Records)
       /\ IsNormal(Records[i + 1])
       /\ Len(Records[i + 1]) = Len(Records[i])
    THEN 1 + RunLength(i + 1)
    ELSE 1

RunStarts == SelectSeq([i \in 1 .. Len(Records) |-> i], OpensRun)

\* the positions in the output log of the group headers
CountWrites ==
    SelectSeq([j \in 1 .. Len(outfile) |-> j],
              LAMBDA j : outfile[j].kind = "count")

TranscoderDone == builder = "transcoder" /\ pc = "done"

(***************************************************************************)
(* C14: every record whose first byte is in 0x01..0x7F is written as a row *)
(* of a group and every record whose first byte is >= 0x80 is written in   *)
(* the special encoding, whatever its remaining bytes are.                 *)
(***************************************************************************)
C14_EncodingFromFirstByte ==
    TranscoderDone
        => /\ Len(PayloadWrites) = Len(Records)
           /\ \A i \in 1 .. Len(Records) :
                 /\ IsNormal(Records[i]) => PayloadWrites[i].kind = "row"
                 /\ IsSpecial(Records[i]) => PayloadWrites[i].kind = "special"

(***************************************************************************)
(* C15: each maximal run of adjacent normal rows of equal length L is      *)
(* written as one group: the 4-byte little-endian number of rows, one byte *)
(* L, then the rows unchanged; there is no other group.                    *)
(***************************************************************************)
C15_OneGroupPerRun ==
    TranscoderDone
        => /\ Len(CountWrites) = Len(RunStarts)
           /\ \A k \in 1 .. Len(RunStarts) :
                 LET i == RunStarts[k]
                     j == CountWrites[k]
                     n == RunLength(i)
                 IN  /\ outfile[j].data = << n, 0, 0, 0 >>
                     /\ j + 1 + n <= Len(outfile)
                     /\ outfile[j + 1].kind = "length"
                     /\ outfile[j + 1].data = << Len(Records[i]) - 1 >>
                     /\ \A r \in 1 .. n :
                           /\ outfile[j + 1 + r].kind = "row"
                           /\ outfile[j + 1 + r].data = Tail(Records[i + r - 1])

(***************************************************************************)
(* C16: a record whose first byte b is >= 0x80 is written as FF FF FF FF   *)
(* 04, then b - 0x80 as four little-endian bytes, then its remaining bytes *)
(* as they are, in one write that no count or length byte precedes.        *)
(***************************************************************************)
C16_SpecialEncoding ==
    TranscoderDone
        => /\ Len(PayloadWrites) = Len(Records)
           /\ \A i \in 1 .. Len(Records) :
                 IsSpecial(Records[i])
                    => /\ PayloadWrites[i].kind = "special"
                       /\ PayloadWrites[i].data = SpecialBytes(Records[i])
                       /\ PayloadWrites[i].len = 8 + Len(Records[i])
           /\ \A j \in 1 .. Len(outfile) :
                 (outfile[j].kind = "special" /\ j > 1)
                    => outfile[j - 1].kind \in {"row", "special"}

C16_Witness ==
    /\ TranscoderDone
    /\ Records = << << 133, 1, 2 >>, << 128 >> >>
    /\ OutputBytes = << 255, 255, 255, 255, 4, 5, 0, 0, 0, 1, 2,
                        255, 255, 255, 255, 4, 0, 0, 0, 0 >>

(***************************************************************************)
(* C17: the output keeps the file order.  In every state the rows and      *)
(* special records written so far, followed by the buffered rows, are the  *)
(* payloads of the records consumed so far, in order; at the end no row is *)
(* left in the buffer, and the lines that are skipped add no byte.         *)
(***************************************************************************)
C17_FileOrderKept ==
    (builder = "transcoder" /\ pc \in {"entries", "done"})
        => /\ [i \in 1 .. Len(PayloadWrites) |-> PayloadWrites[i].data]
                 \o normal_entries_buffer
              = [i \in 1 .. entry_no |-> Payload(Records[i])]
           /\ \A j \in 1 .. Len(outfile) :
                 outfile[j].kind \in {"count", "length", "row", "special"}
           /\ pc = "done" => /\ normal_entries_buffer = << >>
                             /\ entry_no = Len(Records)
                             /\ Records = << >> => outfile = << >>

C17_Witness ==
    /\ TranscoderDone
    /\ Len(input_file) = 3
    /\ input_file[2].kind = "comment"
    /\ Records = << << 16, 170, 187 >>, << 133, 1, 2 >> >>
    /\ OutputBytes = << 1, 0, 0, 0, 2, 170, 187,
                        255, 255, 255, 255, 4, 5, 0, 0, 0, 1, 2 >>

(***************************************************************************)
(* Vocabulary of the camera container properties.                          *)
(***************************************************************************)
CameraDone == builder = "camera" /\ pc = "done"

\* the write of the CameraBasicInfo blob: where the payloads begin
InfoWrite == outfile[1]

\* the call of the i-th --camconfcmnd entry
Command(i) == script[i + 1]

(***************************************************************************)
(* C18: in a camera container build the CameraBasicInfo blob is written at *)
(* 12 x the number of entries of the directory that is serialized last, so *)
(* the directory written at offset 0 ends where the payloads begin, and    *)
(* the directory_entry_count field is that number of entries.              *)
(***************************************************************************)
C18_DirectoryEndsAtPayloadBase ==
    CameraDone
        => /\ InfoWrite.kind = "info"
           /\ InfoWrite.at = 12 * Len(Decode(returned))
           /\ outfile[Len(outfile)].kind = "directory"
           /\ outfile[Len(outfile)].at + outfile[Len(outfile)].len
                 <= InfoWrite.at
           /\ InfoWrite.data = Len(Decode(returned))

(***************************************************************************)
(* C19: in a camera container that was built the first directory entry is  *)
(* BASIC_CAMERA_CONFIG with size 60 at the payload base offset; the        *)
(* entries of the commands follow in the order given, each at the offset   *)
(* where the previous one ends and with the size of its blob, and every    *)
(* blob is written at the offset of its entry.                             *)
(***************************************************************************)
C19_PayloadsBackToBack ==
    CameraDone
        => LET dir == Decode(returned)
           IN  /\ Len(dir) = 1 + args.camconfcmnd
               /\ dir[1] = << 4097, InfoWrite.at, 60 >>
               /\ \A i \in 1 .. args.camconfcmnd :
                     /\ dir[i + 1][1] = Command(i).uid
                     /\ dir[i + 1][2] = dir[i][2] + dir[i][3]
                     /\ dir[i + 1][3] = Command(i).file
                     /\ outfile[i + 1].kind = "command"
                     /\ outfile[i + 1].at = dir[i + 1][2]
                     /\ outfile[i + 1].len = dir[i + 1][3]

C19_Witness ==
    /\ CameraDone /\ args.basicconf
    /\ Decode(returned) = << << 4097, 36, 60 >>, << 4114, 96, 5 >>,
                             << 4113, 101, 4 >> >>

(***************************************************************************)
(* C20: a command whose identifier is already registered in the build (by  *)
(* an earlier command, or 0x1001 by the basic information) makes the build *)
(* fail at that call, and the failing call writes nothing and leaves the   *)
(* payload cursor and the directory as they were.                          *)
(***************************************************************************)
C20_RepeatedCommandRejected ==
    [][ ( /\ builder = "camera"
          /\ lastOp'.op = "write_camera_config_to_file"
          /\ HasUID(cc_dir_entries, lastOp'.uid) )
            => /\ pc' = "failed"
               /\ lastOp'.file # MissingFile => err' = "dup"
               /\ outfile' = outfile
               /\ confg_cmnd_pyld_offset' = confg_cmnd_pyld_offset
               /\ cc_dir_entries' = cc_dir_entries ]_vars

C20_Witness ==
    /\ builder = "camera" /\ pc = "failed" /\ err = "dup"
    /\ lastOp = Call("write_camera_config_to_file", 4097, 5)
    /\ Len(outfile) = 2 /\ outfile[2].data = 4113
    /\ confg_cmnd_pyld_offset = Some(outfile[2].at + outfile[2].len)

HeaderWrites == SelectSeq(outfile, LAMBDA w : w.kind = "header")

\* the StartOfDirectory values given to this run, in order
StartValues == SelectSeq(script, LAMBDA c : c.op = "RfsConfStartOfDirectory")

(***************************************************************************)
(* C21: a StartOfDirectory value is accepted only if it is a multiple of   *)
(* the alignment and not smaller than the alignment, the base of the first *)
(* directory region; any other value ends the build before a header or a   *)
(* directory is written.                                                   *)
(***************************************************************************)
C21_StartOfDirectoryValidated ==
    [][ (builder = "root" /\ stage < 7 /\ stage' = 7)
            => LET V == lastOp'.uid
               IN  /\ (err' = "none")
                         => (V % ALIGNMENT_VALUE = 0 /\ V >= ALIGNMENT_VALUE)
                   /\ (err' # "none")
                         => /\ pc' = "failed"
                            /\ \A i \in 1 .. Len(outfile') :
                                  outfile'[i].kind = "module" ]_vars

(***************************************************************************)
(* C22: when a root build given StartOfDirectory=V succeeds, the header it *)
(* wrote holds V in start_of_directory and the first copy of the directory *)
(* is written at file offset V.                                            *)
(***************************************************************************)
C22_DirectoryStartsAtGivenAddress ==
    ( /\ builder = "root" /\ pc = "done"
      /\ args.erase_block_alignment \in PowersOfTwo
      /\ StartValues # << >> )
        => LET V == StartValues[1].uid
           IN  /\ HeaderWrites[1].data.start_of_directory = V
               /\ DirectoryWrites[1].at = V

(***************************************************************************)
(* C23: in a finished root image, when the directory holds a module whose  *)
(* identifier is the boot identifier of the written header, explicit or    *)
(* default, that module is the first entry of the serialized directory.    *)
(***************************************************************************)
C23_BootModuleFirst ==
    (builder = "root" /\ pc = "done")
        => LET boot == HeaderWrites[1].data.uid_of_firmware_to_boot
               table == Decode(returned)
           IN  (\E i \in 1 .. Len(table) : table[i][1] = boot)
                  => table[1][1] = boot

(***************************************************************************)
(* C24: get_dir_entries is idempotent: on any table of a root build, with  *)
(* or without a pinned identifier, a second call returns the bytes of the  *)
(* first (or fails as the first did) and every call keeps the same set of  *)
(* entries, so the directory copies of one root image are byte-identical.  *)
(***************************************************************************)
C24_SerializeIdempotent ==
    (builder = "root")
        => LET once == Serialized(dir_entries, first_UID, 1)
               twice == Serialized(dir_entries, first_UID, 2)
           IN  /\ get_dir_entries_raises(once, first_UID)
                     <=> get_dir_entries_raises(dir_entries, first_UID)
               /\ get_dir_entries(once, first_UID)
                     = get_dir_entries(dir_entries, first_UID)
               /\ Join(twice) = Join(once)
               /\ Len(once) = Len(dir_entries)
               /\ {once[i] : i \in 1 .. Len(once)}
                     = {dir_entries[i] : i \in 1 .. Len(dir_entries)}
               /\ pc = "done"
                     => \A k \in 1 .. Len(DirectoryWrites) :
                           DirectoryWrites[k].data = DirectoryWrites[1].data

C24_Witness ==
    /\ builder = "root" /\ pc = "done" /\ first_UID = Some(4098)
    /\ Len(registered) = 3 /\ registered[3][1] = 4098
    /\ Len(DirectoryWrites) = 2
    /\ DirectoryWrites[2].data = DirectoryWrites[1].data
    /\ Decode(DirectoryWrites[2].data)[1][1] = 4098

\* the step is a call of one of the Add* methods of the root builder
AddStep ==
    /\ builder = "root"
    /\ Len(script') = Len(script) + 1
    /\ lastOp'.op \in AddOps

(***************************************************************************)
(* C25: a successful Add* call of a root build made with the cursor at p   *)
(* for a file of s bytes writes the file at [p, p+s), registers the entry  *)
(* (identifier, p - base of the first directory region, s) and leaves the  *)
(* cursor at the smallest multiple of the alignment that is >= p + s; the  *)
(* modules written before it end at or before p.                           *)
(***************************************************************************)
C25_AddPlacesModule ==
    [][ (AddStep /\ err' = "none")
            => LET p == module_offset
                   s == lastOp'.file
                   uid == lastOp'.uid
               IN  /\ outfile' = Append(outfile, Write("module", p, s, uid))
                   /\ Decode(Join(dir_entries'))
                         = Append(Decode(Join(dir_entries)),
                                  << uid, p - dir1_offset, s >>)
                   /\ registered'
                         = Append(registered, << uid, p - dir1_offset, s >>)
                   /\ module_offset' % ALIGNMENT_VALUE = 0
                   /\ module_offset' >= p + s
                   /\ module_offset' - ALIGNMENT_VALUE < p + s
                   /\ \A i \in ModuleWrites :
                         outfile[i].at + outfile[i].len <= p ]_vars

C25_Witness ==
    /\ builder = "root" /\ pc = "modules" /\ err = "none"
    /\ ALIGNMENT_VALUE = 4 /\ dir1_offset = 4
    /\ Len(outfile) = 2
    /\ outfile[1] = Write("module", 8, 5, 8193)
    /\ outfile[2] = Write("module", 16, 4, 4097)
    /\ registered = << << 8193, 4, 5 >>, << 4097, 12, 4 >> >>
    /\ module_offset = 20

\* the call of the step does not pass the validation of its Add* method
FailsValidation ==
    \/ lastOp'.uid \notin CategoryRange(lastOp'.op)
    \/ lastOp'.file = MissingFile
    \/ lastOp'.op = "AddAppData" /\ lastOp'.file % 4 # 0

(***************************************************************************)
(* C26: a root Add* call whose identifier is outside its range, whose file *)
(* is missing or, for AddAppData, whose file size is not a multiple of 4,  *)
(* raises and leaves the output, the module cursor and the directory as    *)
(* they were; what earlier calls wrote stays in the output.                *)
(***************************************************************************)
C26_RejectedAddLeavesImage ==
    [][ (AddStep /\ FailsValidation)
            => /\ pc' = "failed"
               /\ err' \in {"range", "missing", "size"}
               /\ outfile' = outfile
               /\ module_offset' = module_offset
               /\ dir_entries' = dir_entries
               /\ registered' = registered ]_vars

C26_Witness ==
    /\ builder = "root" /\ pc = "failed" /\ err = "range"
    /\ lastOp = Call("AddGARDFirmware", 8191, 4)
    /\ outfile = << Write("module", 65536, 5, 8193) >>
    /\ Len(dir_entries) = 1
    /\ module_offset = 98304

(***************************************************************************)
(* C27: a root Add* call that passes validation with an identifier the     *)
(* directory already holds fails without writing any byte of the rejected  *)
(* module and without moving the module cursor.                            *)
(***************************************************************************)
C27_DuplicateAddWritesNothing ==
    [][ (AddStep /\ ~FailsValidation /\ HasUID(dir_entries, lastOp'.uid))
            => /\ pc' = "failed"
               /\ outfile' = outfile
               /\ module_offset' = module_offset ]_vars

\* two writes have no byte in common
Disjoint(v, w) ==
    \/ v.len = 0 \/ w.len = 0
    \/ v.at + v.len <= w.at
    \/ w.at + w.len <= v.at

(***************************************************************************)
(* C28: after a successful root build with a power-of-two alignment and at *)
(* least one directory copy, the byte ranges written for the header, for   *)
(* each directory copy and for each module are pairwise disjoint.          *)
(***************************************************************************)
C28_WritesDisjoint ==
    ( /\ builder = "root" /\ pc = "done"
      /\ args.erase_block_alignment \in PowersOfTwo
      /\ args.dir_copies >= 1 )
        => \A i, j \in 1 .. Len(outfile) :
              i < j => Disjoint(outfile[i], outfile[j])

(***************************************************************************)
(* C29: a builder made after another one in the same process starts with   *)
(* an empty directory table, and an Add call of it is rejected as a        *)
(* duplicate only for an identifier registered through this builder.       *)
(***************************************************************************)
C29_BuilderOwnsDirectory ==
    firstRun # None
        => /\ pc = "start" => (dir_entries = << >> /\ cc_dir_entries = << >>)
           /\ (pc = "failed" /\ err = "dup")
                 => \E i \in 1 .. Len(registered) :
                       registered[i][1] = lastOp.uid

====
